---- MODULE Spec2Model ----
(***************************************************************************)
(* Model of knowledge_vault: the append-only JSONL record store            *)
(* (storage.py) and the search engine over it (search.py).                 *)
(*                                                                         *)
(* Strings are sequences of characters; a character is a one-element       *)
(* string ("a", " ", ",") or the name of a code point ("u6280").           *)
(* The log file is a sequence of pieces of serialized lines: the line of   *)
(* a record is cut in the pieces head, tail and newline (see Pieces),      *)
(* so that short writes and failed writes can leave any prefix of it.      *)
(***************************************************************************)
EXTENDS Integers, Sequences, FiniteSets, TLC

(* ------------------------------ bounds --------------------------------- *)
\* processes sharing the log file
NumProcs == 2
\* store calls made in a run, all processes together
MaxCalls == 2
\* I/O errors the operating system raises in a run of several processes
MaxFaults == 1
\* lines of a damaged log
MaxLines == 3
\* records of a log that is searched
MaxRecords == 2

Procs == 1..NumProcs

(* --------------------------- string helpers ---------------------------- *)
Range(s) == {s[i] : i \in 1..Len(s)}

IsSpace(c) == c = " "

RECURSIVE LStrip(_)
LStrip(s) == IF s # <<>> /\ IsSpace(Head(s)) THEN LStrip(Tail(s)) ELSE s

RECURSIVE RStrip(_)
RStrip(s) ==
  IF s # <<>> /\ IsSpace(s[Len(s)]) THEN RStrip(SubSeq(s, 1, Len(s) - 1)) ELSE s

\* str.strip()
Strip(s) == RStrip(LStrip(s))

\* one character of str.lower()
LowerChar(c) ==
  CASE c = "A" -> "a"
    [] c = "C" -> "c"
    [] c = "P" -> "p"
    [] c = "I" -> "i"
    [] c = "W" -> "w"
    [] c = "X" -> "x"
    [] OTHER -> c

\* str.lower()
Lower(s) == [i \in 1..Len(s) |-> LowerChar(s[i])]

\* s[a:b] of Python, 0-based, end exclusive, clamped
Slice(s, a, b) ==
  LET lo == IF a < 0 THEN 0 ELSE a
      hi == IF b > Len(s) THEN Len(s) ELSE b
  IN IF hi <= lo THEN <<>> ELSE SubSeq(s, lo + 1, hi)

\* str.find(sub): the least 0-based index where sub occurs, or -1
Find(s, sub) ==
  LET hits == {i \in 0..(Len(s) - Len(sub)) : Slice(s, i, i + Len(sub)) = sub}
  IN IF hits = {} THEN -1 ELSE CHOOSE i \in hits : \A j \in hits : i <= j

\* sub in s
Contains(s, sub) == Find(s, sub) # -1

\* str.split(","): the fields between the commas, empty ones kept
RECURSIVE SplitComma(_)
SplitComma(s) ==
  LET pos == Find(s, <<",">>)
  IN IF pos = -1 THEN <<s>>
     ELSE <<Slice(s, 0, pos)>> \o SplitComma(Slice(s, pos + 1, Len(s)))

\* str.split(): the words between runs of whitespace, `word` being the word
\* read so far
RECURSIVE SplitWordsFrom(_, _)
SplitWordsFrom(s, word) ==
  LET done == IF word = <<>> THEN <<>> ELSE <<word>>
  IN IF s = <<>> THEN done
     ELSE IF IsSpace(Head(s)) THEN done \o SplitWordsFrom(Tail(s), <<>>)
     ELSE SplitWordsFrom(Tail(s), Append(word, Head(s)))

SplitWords(s) == SplitWordsFrom(s, <<>>)

\* " ".join(parts)
RECURSIVE JoinSpace(_)
JoinSpace(parts) ==
  IF parts = <<>> THEN <<>>
  ELSE IF Len(parts) = 1 THEN parts[1]
  ELSE parts[1] \o <<" ">> \o JoinSpace(Tail(parts))

\* c * n
Repeat(c, n) == [i \in 1..n |-> c]

\* "..."
Ellipsis == <<".", ".", ".">>

\* a list with the elements of a set, each once (list(set(...)): order unspecified)
RECURSIVE SetToList(_)
SetToList(S) ==
  IF S = {} THEN <<>>
  ELSE LET x == CHOOSE x \in S : TRUE IN <<x>> \o SetToList(S \ {x})

(* ------------------------ storage.py: tagging -------------------------- *)
TagTech == <<"u6280", "u672f">>
TagWork == <<"u5de5", "u4f5c">>
TagStudy == <<"u5b66", "u4e60">>
TagIdea == <<"u60f3", "u6cd5">>
TagLife == <<"u751f", "u6d3b">>

\* tag_keywords, in declaration order
tag_keywords ==
  << [tag |-> TagTech,
      keywords |-> {<<"u6280", "u672f">>, <<"u7f16", "u7a0b">>, <<"u4ee3", "u7801">>,
                    <<"a", "p", "i">>, <<"u7b97", "u6cd5">>, <<"u6570", "u636e">>,
                    <<"u5f00", "u53d1">>}],
     [tag |-> TagWork,
      keywords |-> {<<"u5de5", "u4f5c">>, <<"u9879", "u76ee">>, <<"u4f1a", "u8bae">>,
                    <<"u4efb", "u52a1">>, <<"u8ba1", "u5212">>,
                    <<"d", "e", "a", "d", "l", "i", "n", "e">>}],
     [tag |-> TagStudy,
      keywords |-> {<<"u5b66", "u4e60">>, <<"u6559", "u7a0b">>, <<"u7b14", "u8bb0">>,
                    <<"u77e5", "u8bc6">>, <<"u6587", "u6863">>, <<"u8bfe", "u7a0b">>}],
     [tag |-> TagIdea,
      keywords |-> {<<"u60f3", "u6cd5">>, <<"u601d", "u8003">>, <<"u89c2", "u70b9">>,
                    <<"u611f", "u609f">>, <<"u5fc3", "u5f97">>, <<"u53cd", "u601d">>}],
     [tag |-> TagLife,
      keywords |-> {<<"u751f", "u6d3b">>, <<"u65e5", "u5e38">>, <<"u4e2a", "u4eba">>,
                    <<"u5065", "u5eb7">>, <<"u4f11", "u95f2">>, <<"u5a31", "u4e50">>}] >>

\* _auto_suggest_tags(content, title)
auto_suggest_tags(content, title) ==
  LET text == Lower(title \o <<" ">> \o content)
      hit(e) == \E kw \in e.keywords : Contains(text, kw)
      suggested == SelectSeq(tag_keywords, hit)
  IN [i \in 1..(IF Len(suggested) > 3 THEN 3 ELSE Len(suggested)) |-> suggested[i].tag]

\* manual_tags = [tag.strip() for tag in tags.split(",") if tag.strip()]
manual_tags(tags) ==
  LET fields == SplitComma(tags)
      kept == SelectSeq(fields, LAMBDA t : Strip(t) # <<>>)
  IN [i \in 1..Len(kept) |-> Strip(kept[i])]

\* suggested_tags = self._auto_suggest_tags(content, title) if auto_tag else []
suggested_tags(content, title, auto_tag) ==
  IF auto_tag THEN auto_suggest_tags(content, title) ELSE <<>>

\* all_tags = list(set(manual_tags + suggested_tags))
all_tags(content, title, tags, auto_tag) ==
  SetToList(Range(manual_tags(tags) \o suggested_tags(content, title, auto_tag)))

(* --------------------- storage.py: title generation -------------------- *)
Delimiters == <<"u3002", ".", "?", "uff1f", "!", "uff01">>

\* the for loop of _generate_title over the delimiters from the k-th on
RECURSIVE TitleAtDelimiter(_, _, _)
TitleAtDelimiter(content, title, k) ==
  IF k > Len(Delimiters) THEN title
  ELSE LET pos == Find(title, <<Delimiters[k]>>)
       IN IF pos > 10 THEN Slice(content, 0, pos + 1)
          ELSE TitleAtDelimiter(content, title, k + 1)

\* _generate_title(content)
generate_title(content) ==
  LET title == TitleAtDelimiter(content, Strip(Slice(content, 0, 50)), 1)
  IN IF Len(content) > Len(title) THEN title \o Ellipsis ELSE title

\* the title variable of store after line 53
StoreTitle(content, title) ==
  IF Strip(title) = <<>> THEN generate_title(content) ELSE title

\* a record whose content is kept as passed
MakeRecordUntrimmed(id, timestamp, inp) ==
  [id |-> id,
   timestamp |-> timestamp,
   title |-> Strip(StoreTitle(inp.content, inp.title)),
   content |-> inp.content,
   tags |-> all_tags(inp.content, inp.title, inp.tags, inp.auto_tag)]

\* the record dict store builds (lines 55-61)
MakeRecord(id, timestamp, inp) ==
  [id |-> id,
   timestamp |-> timestamp,
   title |-> Strip(StoreTitle(inp.content, inp.title)),
   content |-> Strip(inp.content),
   tags |-> all_tags(inp.content, inp.title, inp.tags, inp.auto_tag)]

\* the summary store returns (line 68), made of its locals record_id, title
\* (not stripped) and all_tags
Summary(id, inp) ==
  [id |-> id,
   title |-> StoreTitle(inp.content, inp.title),
   tags |-> all_tags(inp.content, inp.title, inp.tags, inp.auto_tag)]

(* ------------------------- the inputs of store ------------------------- *)
\* content " api " with surrounding blanks, no title, tags "x, x", auto_tag
InputPadded ==
  [content |-> <<" ", "a", "p", "i", " ">>, title |-> <<>>,
   tags |-> <<"x", ",", " ", "x">>, auto_tag |-> TRUE]

\* content "b", title "t", no tags, auto_tag off
InputPlain ==
  [content |-> <<"b">>, title |-> <<"t">>, tags |-> <<>>, auto_tag |-> FALSE]

Inputs == {InputPadded, InputPlain}

\* empty content, no title
InputEmpty == [content |-> <<>>, title |-> <<>>, tags |-> <<>>, auto_tag |-> FALSE]

\* content " " and title " "
InputBlank == [content |-> <<" ">>, title |-> <<" ">>, tags |-> <<>>, auto_tag |-> FALSE]

\* content "hello world. x": a full stop at position 11, no title
InputSentence ==
  [content |-> <<"h", "e", "l", "l", "o", " ", "w", "o", "r", "l", "d", ".", " ", "x">>,
   title |-> <<>>, tags |-> <<>>, auto_tag |-> FALSE]

\* content " hello world. x": the same after a blank
InputIndented ==
  [content |-> <<" ", "h", "e", "l", "l", "o", " ", "w", "o", "r", "l", "d", ".", " ", "x">>,
   title |-> <<>>, tags |-> <<>>, auto_tag |-> FALSE]

\* content "a. b": a full stop at position 1, no title
InputEarlyStop ==
  [content |-> <<"a", ".", " ", "b">>, title |-> <<>>, tags |-> <<>>, auto_tag |-> FALSE]

\* content of 60 characters without a delimiter, no title
InputLong == [content |-> Repeat("z", 60), title |-> <<>>, tags |-> <<>>, auto_tag |-> FALSE]

\* content "b" with the title " t "
InputTitled ==
  [content |-> <<"b">>, title |-> <<" ", "t", " ">>, tags |-> <<>>, auto_tag |-> FALSE]

\* content "Python API tutorial", no title, auto_tag
InputApi ==
  [content |-> <<"P", "y", "t", "h", "o", "n", " ", "A", "P", "I", " ", "t", "u", "t", "o", "r", "i", "a", "l">>,
   title |-> <<>>, tags |-> <<>>, auto_tag |-> TRUE]

\* content "Cooking pasta recipe", no title, auto_tag
InputPasta ==
  [content |-> <<"C", "o", "o", "k", "i", "n", "g", " ", "p", "a", "s", "t", "a", " ", "r", "e", "c", "i", "p", "e">>,
   title |-> <<>>, tags |-> <<>>, auto_tag |-> TRUE]

\* content "my api", title "t", the tag "Work"
InputWork ==
  [content |-> <<"m", "y", " ", "a", "p", "i">>, title |-> <<"t">>, tags |-> <<"W", "o", "r", "k">>, auto_tag |-> FALSE]

\* content of 163 characters with "api" at position 60, title "api", the tag "x"
InputBuried ==
  [content |-> Repeat("z", 60) \o <<"a", "p", "i">> \o Repeat("z", 100),
   title |-> <<"a", "p", "i">>, tags |-> <<"x">>, auto_tag |-> FALSE]

\* the inputs of the records that are searched
SearchInputs == {InputApi, InputPasta, InputWork, InputBuried}

\* the queries of search: "API", "the api", "pasta"
Queries == {<<"A", "P", "I">>, <<"t", "h", "e", " ", "a", "p", "i">>, <<"p", "a", "s", "t", "a">>}

\* the limits of search and search_by_tags: the transport layer accepts 1..100
Limits == {1, 10}

\* the tag filters of search: none, "work, X"
TagFilters == {<<>>, <<"w", "o", "r", "k", ",", " ", "X">>}

\* the tag lists of search_by_tags: ["WORK", "x"], the first tag of tag_keywords
TagLists == {<< <<"W", "O", "R", "K">>, <<"x">> >>, << TagTech >>}

\* the inputs that exercise the title of a record
TitleInputs ==
  {InputPadded, InputPlain, InputEmpty, InputBlank, InputSentence, InputIndented,
   InputEarlyStop, InputLong, InputTitled}

(* ------------------------------- state --------------------------------- *)
VARIABLES
  file,      \* the bytes of knowledge.jsonl: a sequence of pieces [r, k]
  lock,      \* the holder of flock(LOCK_EX) on the file, 0 when free
  pc,        \* where each process is
  op,        \* the operation each process runs: "none", "store", or a read
  attempt,   \* the loop variable i of _safe_append_record
  wr,        \* pieces of the line the current attempt has written to the file
  exc,       \* where the exception being handled was raised, or "none"
  delay,     \* milliseconds of the time.sleep the process is in
  result,    \* how the last operation ended: "none", "ok", "error"
  cur,       \* the record id of the store call in progress
  calls,     \* the store calls made: [owner, inp, st, pred, summary], by record id
  faults,    \* I/O errors the operating system can still raise
  got,       \* the list the last get_all_records of the process built
  fresh,     \* no read has completed since the process's read began
  lastDone,  \* the result of the last read completed
  args,      \* the arguments of the read operation each process runs
  out        \* what the search or search_by_tags just completed returned

vars ==
  <<file, lock, pc, op, attempt, wr, exc, delay, result, cur, calls, faults,
    got, fresh, lastDone, args, out>>

\* the pieces of json.dumps(record) + "\n": the text up to the middle of the
\* content, the rest of the text, the newline
Pieces == <<"head", "tail", "nl">>

\* max_retries of _safe_append_record
max_retries == 3

\* datetime.now() of the store call that created record id: the clock is read
\* once per call and the calls are numbered in the order they read it
Timestamp(id) == id

\* str(uuid.uuid4()) of the n-th store call
NewId(n) == n

(* ------------------------- reading the log file ------------------------ *)
\* json.loads(line.strip()) of one line without its newline, as the list of
\* the values appended to records. A head followed by a tail is a JSON object
\* with the fields of a record; a "scalar" piece is a line holding a JSON value
\* that is no object (42) and an "object" piece one holding an object without
\* the fields of a record ({}): json.loads accepts both. Anything else raises
\* JSONDecodeError and is skipped, and an empty line is skipped before parsing
ParseLine(line) ==
  IF Len(line) = 2 /\ line[1].k = "head" /\ line[2].k = "tail"
  THEN <<[kind |-> "record", h |-> line[1].r, t |-> line[2].r]>>
  ELSE IF Len(line) = 1 /\ line[1].k \in {"scalar", "object"}
  THEN <<[kind |-> line[1].k, h |-> 0, t |-> 0]>>
  ELSE <<>>

\* the loop of get_all_records over the lines of f; the text after the last
\* newline is a line too
RECURSIVE ParseFrom(_, _)
ParseFrom(f, line) ==
  IF f = <<>> THEN ParseLine(line)
  ELSE IF Head(f).k = "nl" THEN ParseLine(line) \o ParseFrom(Tail(f), <<>>)
  ELSE ParseFrom(Tail(f), Append(line, Head(f)))

\* get_all_records() on file content f: one entry for each value appended
ParseFile(f) == ParseFrom(f, <<>>)

\* the entry of a line written whole by the store call of record id
Whole(id) == [kind |-> "record", h |-> id, t |-> id]

\* the dict json.loads returns for an entry made of the head of record h and
\* the tail of record t (h = t on a line written whole); other values as they are
RecordOf(e) ==
  IF e.kind # "record" THEN e
  ELSE LET h == MakeRecord(e.h, Timestamp(e.h), calls[e.h].inp)
           t == MakeRecord(e.t, Timestamp(e.t), calls[e.t].inp)
       IN [id |-> h.id,
           timestamp |-> h.timestamp,
           title |-> h.title,
           content |-> Slice(h.content, 0, Len(h.content) \div 2)
                         \o Slice(t.content, Len(t.content) \div 2, Len(t.content)),
           tags |-> t.tags]

\* get_all_records() in the current state
GetAllRecords == [i \in 1..Len(ParseFile(file)) |-> RecordOf(ParseFile(file)[i])]

\* get_by_id(record_id) over the list get_all_records returned: the first
\* record with that id in a one-element list, or the empty list for None
get_by_id(records, record_id) ==
  LET hits == {i \in 1..Len(records) : records[i].id = record_id}
  IN IF hits = {} THEN <<>>
     ELSE <<records[CHOOSE i \in hits : \A j \in hits : i <= j]>>

\* record.get(...) raises AttributeError on a value that is no dict
GetRaises(e) == e.kind = "scalar"

\* record["content"] raises TypeError on a value that is no dict and KeyError
\* on a dict without the key
IndexRaises(e) == e.kind # "record"

\* get_by_id(record_id) raises: record.get("id") is called on every entry up
\* to the first one with that id
get_by_id_raises(entries, record_id) ==
  \E i \in 1..Len(entries) :
    /\ GetRaises(entries[i])
    /\ \A j \in 1..(i - 1) : ~(entries[j].kind = "record" /\ entries[j].h = record_id)

(* --------------------- storage.py: search_by_tags ---------------------- *)
\* record.get(key, default) on a dict
Get(record, key, default) == IF key \in DOMAIN record THEN record[key] ELSE default

\* [t.lower() for t in record.get("tags", [])], as a set
LowerTags(record) == {Lower(t) : t \in Range(Get(record, "tags", <<>>))}

\* a sort key that is the same for every record
TimestampKeyFlat(record) == 0

\* x.get("timestamp", ""): the empty string sorts before every timestamp
TimestampKey(record) == Get(record, "timestamp", 0)

\* matching.sort(key=..., reverse=True): the stable sort by timestamp, greatest
\* first; records with equal keys keep their order
SortNewestFirst(matching) ==
  LET n == Len(matching)
      rank(i) ==
        Cardinality({j \in 1..n :
                       \/ TimestampKey(matching[j]) > TimestampKey(matching[i])
                       \/ TimestampKey(matching[j]) = TimestampKey(matching[i]) /\ j < i})
          + 1
  IN [k \in 1..n |-> matching[CHOOSE i \in 1..n : rank(i) = k]]

\* search_by_tags(tags, limit) over the list get_all_records returned
search_by_tags(records, tags, limit) ==
  LET matching ==
        SelectSeq(records,
                  LAMBDA r : \E i \in 1..Len(tags) : Lower(tags[i]) \in LowerTags(r))
  IN Slice(SortNewestFirst(matching), 0, limit)

(* ------------------------------ search.py ------------------------------ *)
RECURSIVE GCD(_, _)
GCD(a, b) == IF b = 0 THEN a ELSE GCD(b, a % b)

\* the fraction n / d in lowest terms
Fraction(n, d) == [n |-> n \div GCD(n, d), d |-> d \div GCD(n, d)]

\* the number of characters a[i:ahi] and b[j:bhi] have in common at their start
RECURSIVE CommonLen(_, _, _, _, _, _)
CommonLen(a, b, i, j, ahi, bhi) ==
  IF i < ahi /\ j < bhi /\ a[i + 1] = b[j + 1]
  THEN 1 + CommonLen(a, b, i + 1, j + 1, ahi, bhi)
  ELSE 0

\* the candidates of SequenceMatcher.find_longest_match(alo, ahi, blo, bhi)
\* without junk: the blocks <<i, j, k>> with a[i:i+k] = b[j:j+k] inside the two
\* ranges that cannot be extended to the right
Blocks(a, b, alo, ahi, blo, bhi) ==
  {<<c[1], c[2], CommonLen(a, b, c[1], c[2], ahi, bhi)>> :
     c \in {d \in (alo..(ahi - 1)) \X (blo..(bhi - 1)) : a[d[1] + 1] = b[d[2] + 1]}}

\* the total size of the blocks get_matching_blocks finds in the two ranges:
\* the longest block, of those the one earliest in a, of those the one earliest
\* in b, then the same on its left and on its right
RECURSIVE Matches(_, _, _, _, _, _)
Matches(a, b, alo, ahi, blo, bhi) ==
  LET blocks == Blocks(a, b, alo, ahi, blo, bhi)
      best ==
        CHOOSE c \in blocks : \A e \in blocks :
          \/ c[3] > e[3]
          \/ c[3] = e[3] /\ c[1] < e[1]
          \/ c[3] = e[3] /\ c[1] = e[1] /\ c[2] <= e[2]
  IN IF blocks = {} THEN 0
     ELSE best[3] + Matches(a, b, alo, best[1], blo, best[2])
                  + Matches(a, b, best[1] + best[3], ahi, best[2] + best[3], bhi)

\* SequenceMatcher(None, a, b).ratio() as a fraction, for b shorter than the
\* 200 characters from which the autojunk heuristic applies
Ratio(a, b) ==
  IF Len(a) + Len(b) = 0 THEN Fraction(1, 1)
  ELSE Fraction(2 * Matches(a, b, 0, Len(a), 0, Len(b)), Len(a) + Len(b))

\* lines 85-93 of _calculate_score: the boost of the query words
RECURSIVE WordBoost(_, _, _, _)
WordBoost(query_words, title, content, tags) ==
  IF query_words = <<>> THEN 0
  ELSE LET word == Head(query_words)
           boost == IF Len(word) > 2
                    THEN (IF Contains(title, word) THEN 10 ELSE 0)
                           + (IF Contains(content, word) THEN 5 ELSE 0)
                           + (IF Contains(tags, word) THEN 15 ELSE 0)
                    ELSE 0
       IN boost + WordBoost(Tail(query_words), title, content, tags)

\* _calculate_score(record, query): the score as the fraction n / d (the code
\* computes it in floating point)
calculate_score(record, query) ==
  LET title == Lower(Get(record, "title", <<>>))
      content == Lower(Get(record, "content", <<>>))
      tags == Lower(JoinSpace(Get(record, "tags", <<>>)))
      exact == (IF Contains(title, query) THEN 100 ELSE 0)
                 + (IF Contains(content, query) THEN 50 ELSE 0)
                 + (IF Contains(tags, query) THEN 75 ELSE 0)
      title_similarity == Ratio(query, title)
      content_similarity == Ratio(query, content)
      words == WordBoost(SplitWords(query), title, content, tags)
  IN Fraction((exact + words) * title_similarity.d * content_similarity.d
                + 30 * title_similarity.n * content_similarity.d
                + 20 * content_similarity.n * title_similarity.d,
              title_similarity.d * content_similarity.d)

\* x > y for two scores
ScoreLessFlipped(x, y) == y.n * x.d < x.n * y.d

\* x < y for two scores
ScoreLess(x, y) == x.n * y.d < y.n * x.d

\* scored_results.sort(key=lambda x: x[0], reverse=True): the stable sort by
\* score, greatest first; results with equal scores keep their order
SortByScore(scored_results) ==
  LET n == Len(scored_results)
      before(j, i) ==
        \/ ScoreLess(scored_results[i].score, scored_results[j].score)
        \/ /\ ~ScoreLess(scored_results[j].score, scored_results[i].score)
           /\ j < i
      rank(i) == Cardinality({j \in 1..n : before(j, i)}) + 1
  IN [k \in 1..n |-> scored_results[CHOOSE i \in 1..n : rank(i) = k]]

\* lines 111-116 of _generate_snippet: the position of the first query word
\* longer than 2 characters that occurs in the content, or -1
RECURSIVE WordPos(_, _)
WordPos(content_lower, query_words) ==
  IF query_words = <<>> THEN -1
  ELSE IF Len(Head(query_words)) > 2 /\ Contains(content_lower, Head(query_words))
  THEN Find(content_lower, Head(query_words))
  ELSE WordPos(content_lower, Tail(query_words))

\* best_pos of _generate_snippet after line 116
BestPos(content, query) ==
  LET content_lower == Lower(content)
      pos == Find(content_lower, query)
  IN IF pos # -1 THEN pos ELSE WordPos(content_lower, SplitWords(query))

\* _generate_snippet(content, query, max_length)
generate_snippet(content, query, max_length) ==
  LET best_pos == BestPos(content, query)
      third == max_length \div 3
      start == IF best_pos - third > 0 THEN best_pos - third ELSE 0
      end == start + max_length
      snippet ==
        IF best_pos = -1 THEN Slice(content, 0, max_length)
        ELSE (IF start > 0 THEN Ellipsis ELSE <<>>)
               \o Slice(content, start, end)
               \o (IF end < Len(content) THEN Ellipsis ELSE <<>>)
  IN Strip(snippet)

\* max_length of _generate_snippet
max_length == 150

\* a tag filter that keeps every record
FilterNothing(all_records, tag_filter) == all_records

\* lines 19-26 of search: the records the tag filter keeps
FilterByTags(all_records, tag_filter) ==
  LET fields == SplitComma(tag_filter)
      filter_tags == [i \in 1..Len(fields) |-> Lower(Strip(fields[i]))]
  IN IF tag_filter = <<>> THEN all_records
     ELSE SelectSeq(all_records,
                    LAMBDA r : \E i \in 1..Len(filter_tags) :
                                 filter_tags[i] \in LowerTags(r))

\* lines 29-38 of search: the records with a positive score, best first
ScoredResults(all_records, query_lower) ==
  LET scores == [i \in 1..Len(all_records) |->
                   [score |-> calculate_score(all_records[i], query_lower),
                    record |-> all_records[i]]]
      scored_results == SelectSeq(scores, LAMBDA x : x.score.n > 0)
  IN SortByScore(scored_results)

\* search(query, limit, tag_filter) over the list get_all_records returned
search(records, query, limit, tag_filter) ==
  LET query_lower == Lower(query)
      scored_results == ScoredResults(FilterByTags(records, tag_filter), query_lower)
      top == Slice(scored_results, 0, limit)
  IN [query |-> query,
      total |-> Len(scored_results),
      results |->
        [i \in 1..Len(top) |->
           [id |-> top[i].record.id,
            title |-> top[i].record.title,
            snippet |-> generate_snippet(top[i].record.content, query_lower, max_length),
            tags |-> Get(top[i].record, "tags", <<>>),
            timestamp |-> top[i].record.timestamp,
            score |-> top[i].score]]]

\* the operations that read the log
ReadOps ==
  {"get_all_records", "get_by_id", "search_by_tags", "get_stats", "search",
   "search_recent"}

\* the list of dicts get_all_records returns for the entries
Dicts(entries) == [i \in 1..Len(entries) |-> RecordOf(entries[i])]

\* no arguments
NoArgs == [query |-> <<>>, limit |-> 0, tag_filter |-> <<>>, tags |-> <<>>]

\* the arguments of operation o when the caller passes only the required
\* ones: search("api") with limit 10 and no tag filter, search_by_tags(["x"])
\* with limit 20
DefaultArgs(o) ==
  CASE o = "search" -> [NoArgs EXCEPT !.query = <<"a", "p", "i">>, !.limit = 10]
    [] o = "search_by_tags" -> [NoArgs EXCEPT !.tags = << <<"x">> >>, !.limit = 20]
    [] OTHER -> NoArgs

\* search raises on the entries: record.get is called on every entry, and
\* record["content"] on the entries among the first limit results
search_raises(entries, a) ==
  \/ \E i \in 1..Len(entries) : GetRaises(entries[i])
  \/ /\ \E i \in 1..Len(entries) : IndexRaises(entries[i])
     /\ LET scored_results ==
               ScoredResults(FilterByTags(Dicts(entries), a.tag_filter), Lower(a.query))
             top == Slice(scored_results, 0, a.limit)
         IN \E i \in 1..Len(top) : "content" \notin DOMAIN top[i].record

\* operation o with arguments a raises on the entries get_all_records
\* returned: get_by_id of the id last stored; search_by_tags and get_stats call
\* record.get on every entry; search_recent (limit above the number of entries)
\* calls x.get in the sort key and then record["content"] on every entry
Raises(o, entries, a) ==
  CASE o = "get_all_records" -> FALSE
    [] o = "get_by_id" -> get_by_id_raises(entries, NewId(Len(calls)))
    [] o \in {"search_by_tags", "get_stats"} ->
         \E i \in 1..Len(entries) : GetRaises(entries[i])
    [] o = "search" -> search_raises(entries, a)
    [] o = "search_recent" ->
         \E i \in 1..Len(entries) : GetRaises(entries[i]) \/ IndexRaises(entries[i])

\* what operation o with arguments a returns on the entries
Returned(o, entries, a) ==
  CASE o = "search" -> search(Dicts(entries), a.query, a.limit, a.tag_filter)
    [] o = "search_by_tags" -> search_by_tags(Dicts(entries), a.tags, a.limit)
    [] OTHER -> <<>>

\* nothing returned yet
NoOut == [op |-> "none", args |-> NoArgs, value |-> <<>>]

(* ------------------------------ actions -------------------------------- *)
\* the state after KnowledgeStorage() on a data directory whose log holds f,
\* written by the store calls cs, with n I/O errors to come
InitWith(n, f, cs) ==
  /\ file \in f
  /\ lock = 0
  /\ pc = [p \in Procs |-> "idle"]
  /\ op = [p \in Procs |-> "none"]
  /\ attempt = [p \in Procs |-> 0]
  /\ wr = [p \in Procs |-> 0]
  /\ exc = [p \in Procs |-> "none"]
  /\ delay = [p \in Procs |-> 0]
  /\ result = [p \in Procs |-> "none"]
  /\ cur = [p \in Procs |-> 0]
  /\ calls = cs
  /\ faults = n
  /\ got = [p \in Procs |-> <<>>]
  /\ fresh = [p \in Procs |-> FALSE]
  /\ lastDone = <<>>
  /\ args = [p \in Procs |-> NoArgs]
  /\ out = NoOut

\* a new data directory: ensure_data_dir creates the empty file
Init == InitWith(MaxFaults, {<<>>}, <<>>)

\* the pieces from-th to to-th of the line of record id
LinePieces(id, from, to) ==
  [i \in 1..(to - from + 1) |-> [r |-> id, k |-> Pieces[from + i - 1]]]

\* a backoff that does not grow
BackoffFlat(i) == 100

\* time.sleep(0.1 * (i + 1)), in milliseconds
Backoff(i) == 100 * (i + 1)

\* the operation of p is over: its locals are gone
Return(p, how) ==
  /\ pc' = [pc EXCEPT ![p] = "idle"]
  /\ op' = [op EXCEPT ![p] = "none"]
  /\ result' = [result EXCEPT ![p] = how]
  /\ attempt' = [attempt EXCEPT ![p] = 0]
  /\ wr' = [wr EXCEPT ![p] = 0]
  /\ exc' = [exc EXCEPT ![p] = "none"]
  /\ delay' = [delay EXCEPT ![p] = 0]
  /\ cur' = [cur EXCEPT ![p] = 0]
  /\ args' = [args EXCEPT ![p] = NoArgs]

\* except Exception of _safe_append_record (lines 113-116) for an exception
\* raised at `where`, and the raise of store (lines 65-66) on False
Handler(p, where) ==
  IF attempt[p] = max_retries - 1
  THEN /\ Return(p, "error")
       /\ calls' = [calls EXCEPT ![cur[p]].st = "error"]
  ELSE /\ pc' = [pc EXCEPT ![p] = "sleep"]
       /\ delay' = [delay EXCEPT ![p] = Backoff(attempt[p])]
       /\ exc' = [exc EXCEPT ![p] = where]
       /\ wr' = [wr EXCEPT ![p] = 0]
       /\ UNCHANGED <<op, result, attempt, cur, calls, args>>

\* a file_lock without the finally clause
FinallySkipped(p) == lock' = lock

\* a file_lock that unlocks only when its body raised nothing
FinallyOnSuccess(p) == lock' = IF exc[p] = "none" THEN 0 ELSE lock

\* finally: fcntl.flock(f.fileno(), fcntl.LOCK_UN)  (file_lock lines 36-37)
Finally(p) == lock' = 0

\* store(content, title, tags, auto_tag), lines 43-61: the id, the timestamp,
\* the record and the locals the summary is made of when the call succeeds;
\* then _safe_append_record starts with i = 0
Store(p, inp) ==
  /\ pc[p] = "idle"
  /\ Len(calls) < MaxCalls
  /\ calls' = Append(calls, [owner |-> p, inp |-> inp, st |-> "run",
                             pred |-> {c \in 1..Len(calls) : calls[c].st # "run"},
                             summary |-> Summary(NewId(Len(calls) + 1), inp)])
  /\ cur' = [cur EXCEPT ![p] = NewId(Len(calls) + 1)]
  /\ op' = [op EXCEPT ![p] = "store"]
  /\ pc' = [pc EXCEPT ![p] = "open"]
  /\ result' = [result EXCEPT ![p] = "none"]
  /\ UNCHANGED <<file, lock, attempt, wr, exc, delay, faults, got, fresh, lastDone,
                 args, out>>

\* read operation o is called with arguments a: each of them begins with
\* get_all_records(); what the previous operation returned is no longer looked at
StartReadWith(p, o, a) ==
  /\ pc[p] = "idle"
  /\ op' = [op EXCEPT ![p] = o]
  /\ args' = [args EXCEPT ![p] = a]
  /\ out' = NoOut
  /\ pc' = [pc EXCEPT ![p] = "open"]
  /\ result' = [result EXCEPT ![p] = "none"]
  /\ fresh' = [fresh EXCEPT ![p] = TRUE]
  /\ UNCHANGED <<file, lock, attempt, wr, exc, delay, cur, calls, faults, got,
                 lastDone>>

\* read operation o starts
StartRead(p, o) == StartReadWith(p, o, DefaultArgs(o))

\* search(query, limit, tag_filter) starts
Search(p, query, limit, tag_filter) ==
  StartReadWith(p, "search",
                [NoArgs EXCEPT !.query = query, !.limit = limit,
                               !.tag_filter = tag_filter])

\* search_by_tags(tags, limit) starts
SearchByTags(p, tags, limit) ==
  StartReadWith(p, "search_by_tags", [NoArgs EXCEPT !.tags = tags, !.limit = limit])

\* file_lock lines 32-34: open(self.data_file, mode), then fcntl.flock(LOCK_EX),
\* which blocks until the lock is free
Lock(p) ==
  /\ pc[p] = "open"
  /\ lock = 0
  /\ lock' = p
  /\ pc' = [pc EXCEPT ![p] = "body"]
  /\ UNCHANGED <<file, op, attempt, wr, exc, delay, result, cur, calls, faults,
                 got, fresh, lastDone, args, out>>

\* open raises OSError in a store: nothing was written, the handler runs
OpenFail(p) ==
  /\ pc[p] = "open"
  /\ op[p] = "store"
  /\ faults > 0
  /\ faults' = faults - 1
  /\ Handler(p, "open")
  /\ UNCHANGED <<file, lock, got, fresh, lastDone, out>>

\* a write at the start of the file instead of its end
WriteAtStart(p, k) ==
  /\ pc[p] = "body"
  /\ op[p] = "store"
  /\ file' = LinePieces(cur[p], 1, k) \o file
  /\ wr' = [wr EXCEPT ![p] = k]
  /\ pc' = [pc EXCEPT ![p] = "unlock"]
  /\ UNCHANGED <<lock, op, attempt, exc, delay, result, cur, calls, faults, got,
                 fresh, lastDone, args, out>>

\* _safe_append_record line 111: f.write(line). The text goes to the buffer of
\* f; k pieces of it reach the file now: none for a line shorter than the
\* buffer, all for a longer one, fewer when the write is short
Write(p, k) ==
  /\ pc[p] = "body"
  /\ op[p] = "store"
  /\ file' = file \o LinePieces(cur[p], 1, k)
  /\ wr' = [wr EXCEPT ![p] = k]
  /\ pc' = [pc EXCEPT ![p] = "unlock"]
  /\ UNCHANGED <<lock, op, attempt, exc, delay, result, cur, calls, faults, got,
                 fresh, lastDone, args, out>>

\* f.write raises OSError after k pieces reached the file; the rest is dropped
WriteFail(p, k) ==
  /\ pc[p] = "body"
  /\ op[p] = "store"
  /\ faults > 0
  /\ faults' = faults - 1
  /\ file' = file \o LinePieces(cur[p], 1, k)
  /\ exc' = [exc EXCEPT ![p] = "body"]
  /\ pc' = [pc EXCEPT ![p] = "unlock"]
  /\ UNCHANGED <<lock, op, attempt, wr, delay, result, cur, calls, got, fresh,
                 lastDone, args, out>>

\* get_all_records lines 124-131: the scan of the file
Read(p) ==
  /\ pc[p] = "body"
  /\ op[p] \in ReadOps
  /\ got' = [got EXCEPT ![p] = ParseFile(file)]
  /\ pc' = [pc EXCEPT ![p] = "unlock"]
  /\ UNCHANGED <<file, lock, op, attempt, wr, exc, delay, result, cur, calls,
                 faults, fresh, lastDone, args, out>>

\* the scan raises (OSError, UnicodeDecodeError): only FileNotFoundError is caught
ReadFail(p) ==
  /\ pc[p] = "body"
  /\ op[p] \in ReadOps
  /\ faults > 0
  /\ faults' = faults - 1
  /\ exc' = [exc EXCEPT ![p] = "body"]
  /\ pc' = [pc EXCEPT ![p] = "unlock"]
  /\ UNCHANGED <<file, lock, op, attempt, wr, delay, result, cur, calls, got,
                 fresh, lastDone, args, out>>

\* the with body of _safe_append_record is left normally: the finally of
\* file_lock; the with open(...) of file_lock is still to be left
UnlockStore(p) ==
  /\ pc[p] = "unlock"
  /\ op[p] = "store"
  /\ exc[p] = "none"
  /\ Finally(p)
  /\ pc' = [pc EXCEPT ![p] = "close"]
  /\ UNCHANGED <<file, op, attempt, wr, exc, delay, result, cur, calls, faults,
                 got, fresh, lastDone, args, out>>

\* the with body of _safe_append_record is left by an exception: the finally
\* of file_lock, f.close() with nothing left to flush, then the handler
UnlockRaise(p) ==
  /\ pc[p] = "unlock"
  /\ op[p] = "store"
  /\ exc[p] # "none"
  /\ Finally(p)
  /\ Handler(p, exc[p])
  /\ UNCHANGED <<file, faults, got, fresh, lastDone, out>>

\* the read operation ends without an exception
ReadOk(p) == exc[p] = "none" /\ ~Raises(op[p], got[p], args[p])

\* the with body of get_all_records is left: the finally of file_lock,
\* f.close(), get_all_records returns records or fails with the exception,
\* and the operation works on the records and returns or raises
UnlockRead(p) ==
  /\ pc[p] = "unlock"
  /\ op[p] \in ReadOps
  /\ Finally(p)
  /\ Return(p, IF ReadOk(p) THEN "ok" ELSE "error")
  /\ got' = [got EXCEPT ![p] = <<>>]
  /\ IF ReadOk(p)
     THEN lastDone' = got[p] /\ fresh' = [q \in Procs |-> FALSE]
     ELSE lastDone' = lastDone /\ fresh' = [fresh EXCEPT ![p] = FALSE]
  /\ IF ReadOk(p) /\ op[p] \in {"search", "search_by_tags"}
     THEN out' = [op |-> op[p], args |-> args[p],
                  value |-> Returned(op[p], got[p], args[p])]
     ELSE out' = out
  /\ UNCHANGED <<file, calls, faults>>

\* the exit of with open(...) of file_lock: f.close() flushes the buffer, k
\* pieces in one write
Flush(p, k) ==
  /\ pc[p] = "close"
  /\ wr[p] + k <= Len(Pieces)
  /\ file' = file \o LinePieces(cur[p], wr[p] + 1, wr[p] + k)
  /\ wr' = [wr EXCEPT ![p] = wr[p] + k]
  /\ UNCHANGED <<lock, pc, op, attempt, exc, delay, result, cur, calls, faults,
                 got, fresh, lastDone, args, out>>

\* f.close() ends and the with statement is left without an exception:
\* _safe_append_record returns True and store returns the summary
CloseStore(p) ==
  /\ pc[p] = "close"
  /\ wr[p] = Len(Pieces)
  /\ Return(p, "ok")
  /\ calls' = [calls EXCEPT ![cur[p]].st = "ok"]
  /\ UNCHANGED <<file, lock, faults, got, fresh, lastDone, out>>

\* f.close() raises OSError (the flush or the close fails): what is left in the
\* buffer is dropped and the handler runs
CloseFail(p) ==
  /\ pc[p] = "close"
  /\ faults > 0
  /\ faults' = faults - 1
  /\ Handler(p, "close")
  /\ UNCHANGED <<file, lock, got, fresh, lastDone, out>>

\* time.sleep returns: the next iteration of the for loop
Wake(p) ==
  /\ pc[p] = "sleep"
  /\ attempt' = [attempt EXCEPT ![p] = attempt[p] + 1]
  /\ exc' = [exc EXCEPT ![p] = "none"]
  /\ delay' = [delay EXCEPT ![p] = 0]
  /\ pc' = [pc EXCEPT ![p] = "open"]
  /\ UNCHANGED <<file, lock, op, wr, result, cur, calls, faults, got, fresh,
                 lastDone, args, out>>

\* one step of process p
Step(p) ==
  \/ \E inp \in Inputs : Store(p, inp)
  \/ StartRead(p, "get_all_records")
  \/ Lock(p)
  \/ OpenFail(p)
  \/ \E k \in 0..Len(Pieces) : Write(p, k)
  \/ \E k \in 0..(Len(Pieces) - 1) : WriteFail(p, k)
  \/ Read(p)
  \/ ReadFail(p)
  \/ UnlockStore(p)
  \/ UnlockRaise(p)
  \/ UnlockRead(p)
  \/ \E k \in 1..Len(Pieces) : Flush(p, k)
  \/ CloseStore(p)
  \/ CloseFail(p)
  \/ Wake(p)

Next == \E p \in Procs : Step(p)

\* several processes share the log file
Spec == Init /\ [][Next]_vars

\* the steps process p takes by itself once it is scheduled: everything but
\* the calls made by its caller, the wait for the lock and the I/O errors
Run(p) ==
  \/ \E k \in 0..Len(Pieces) : Write(p, k)
  \/ Read(p)
  \/ UnlockStore(p)
  \/ UnlockRaise(p)
  \/ UnlockRead(p)
  \/ \E k \in 1..Len(Pieces) : Flush(p, k)
  \/ CloseStore(p)
  \/ Wake(p)

\* fair scheduling: a process that can run does run, and a process blocked
\* in flock(LOCK_EX) is not passed over forever when the lock keeps being freed
Fairness == \A p \in Procs : WF_vars(Run(p)) /\ SF_vars(Lock(p))

SpecFair == Init /\ [][Next]_vars /\ Fairness

\* one process alone, with enough I/O errors to exhaust the retries of a store
InitSolo == InitWith(max_retries, {<<>>}, <<>>)

NextSolo == Step(1)

SpecSolo == InitSolo /\ [][NextSolo]_vars

\* the store calls that wrote the records of a damaged log
StoredCalls ==
  << [owner |-> 1, inp |-> InputPadded, st |-> "ok", pred |-> {},
      summary |-> Summary(NewId(1), InputPadded)],
     [owner |-> 1, inp |-> InputPlain, st |-> "ok", pred |-> {1},
      summary |-> Summary(NewId(2), InputPlain)] >>

\* the kinds of damaged line: text that is no JSON, a JSON value that is no
\* object, a JSON object without the fields of a record
Damage == {"garbage", "scalar", "object"}

\* the lines a damaged log is made of: the record of stored call r whole
\* (d = "none"), or a damaged line of kind d (r = 0)
Lines ==
  {[r |-> c, d |-> "none"] : c \in 1..Len(StoredCalls)}
    \cup {[r |-> 0, d |-> x] : x \in Damage}

\* the pieces of a line
LineOf(x) ==
  IF x.d \in Damage THEN <<[r |-> 0, k |-> x.d], [r |-> 0, k |-> "nl"]>>
  ELSE LinePieces(x.r, 1, Len(Pieces))

RECURSIVE Concat(_)
Concat(ss) == IF ss = <<>> THEN <<>> ELSE Head(ss) \o Concat(Tail(ss))

\* the logs of at most MaxLines lines, one of them damaged
DamagedLogs ==
  LET logs == UNION {[1..n -> Lines] : n \in 1..MaxLines}
  IN {Concat([i \in 1..Len(l) |-> LineOf(l[i])]) :
        l \in {m \in logs : Cardinality({i \in 1..Len(m) : m[i].d \in Damage}) = 1}}

\* one process reads a damaged log
InitCorrupt == InitWith(0, DamagedLogs, StoredCalls)

NextCorrupt ==
  \/ \E o \in ReadOps : StartRead(1, o)
  \/ Lock(1)
  \/ Read(1)
  \/ UnlockRead(1)

SpecCorrupt == InitCorrupt /\ [][NextCorrupt]_vars

\* the one-to-one orders of n lines
Orders(n) == {f \in [1..n -> 1..n] : \A i, j \in 1..n : f[i] = f[j] => i = j}

\* the store calls of the inputs inps, all returned, made by processes that
\* ran them at the same time
CallsOf(inps) ==
  [c \in 1..Len(inps) |->
     [owner |-> ((c - 1) % NumProcs) + 1, inp |-> inps[c], st |-> "ok", pred |-> {},
      summary |-> Summary(NewId(c), inps[c])]]

\* the log those calls left when their appends took the lock in the order given
LogOf(order) ==
  Concat([i \in 1..Len(order) |-> LinePieces(NewId(order[i]), 1, Len(Pieces))])

\* a log of up to MaxRecords records is searched by one process
InitSearch ==
  \E n \in 1..MaxRecords : \E inps \in [1..n -> SearchInputs] : \E order \in Orders(n) :
    InitWith(0, {LogOf(order)}, CallsOf(inps))

NextSearch ==
  \/ \E q \in Queries, l \in Limits, f \in TagFilters : Search(1, q, l, f)
  \/ \E t \in TagLists, l \in Limits : SearchByTags(1, t, l)
  \/ Lock(1)
  \/ Read(1)
  \/ UnlockRead(1)

SpecSearch == InitSearch /\ [][NextSearch]_vars

\* one process stores records with and without a title and looks them up
InitTitles == InitWith(0, {<<>>}, <<>>)

NextTitles ==
  \/ \E inp \in TitleInputs : Store(1, inp)
  \/ StartRead(1, "get_by_id")
  \/ Lock(1)
  \/ \E k \in 0..Len(Pieces) : Write(1, k)
  \/ Read(1)
  \/ UnlockStore(1)
  \/ UnlockRead(1)
  \/ \E k \in 1..Len(Pieces) : Flush(1, k)
  \/ CloseStore(1)

SpecTitles == InitTitles /\ [][NextTitles]_vars

(* ------------------------------ properties ----------------------------- *)
IsPrefix(a, b) == Len(a) <= Len(b) /\ SubSeq(b, 1, Len(a)) = a

\* the process whose store call created the last piece of f
Writer(f) == calls[f[Len(f)].r].owner

\* C1: every access to the bytes of the log file is made under the lock:
\* pieces of a record reach the file only in steps taken while the appending
\* process holds the lock, and the scan of a read runs while the reader holds it
C1_AccessUnderLock ==
  [][/\ file' # file => lock = Writer(file')
     /\ \A p \in Procs :
          (op[p] \in ReadOps /\ pc[p] = "body" /\ pc'[p] = "unlock") => lock = p]_vars

\* C2: from an empty log, once N store calls of the only writer have all
\* returned successfully, get_all_records returns exactly the N records, the
\* i-th being the record of the i-th call
C2_AppendOnlyCount ==
  (lock = 0 /\ \A c \in 1..Len(calls) : calls[c].st = "ok" /\ calls[c].owner = 1)
    => ParseFile(file) = [i \in 1..Len(calls) |-> Whole(NewId(i))]

\* C3: the list returned by a get_all_records that completed before another
\* one started is a prefix of the list the other one returns
C3_ReadsArePrefixes ==
  \A p \in Procs :
    (op[p] \in ReadOps /\ pc[p] = "unlock" /\ exc[p] = "none" /\ fresh[p])
      => IsPrefix(lastDone, got[p])

\* the tags of the round trip: the union of the manual and the suggested tags,
\* each once
TagsAreUnion(record, inp) ==
  /\ Range(record.tags) =
       Range(manual_tags(inp.tags))
         \cup Range(suggested_tags(inp.content, inp.title, inp.auto_tag))
  /\ Cardinality(Range(record.tags)) = Len(record.tags)

FirstIsWhole(c) ==
  LET entries == ParseFile(file)
  IN \E i \in 1..Len(entries) :
       /\ entries[i] = Whole(NewId(c))
       /\ \A j \in 1..(i - 1) : entries[j].h # NewId(c)

WithoutDamage(f) == SelectSeq(f, LAMBDA x : x.r # 0)

\* C5: on a log with one damaged line among K well-formed ones, every read
\* operation ends without failure, having worked on exactly the K records of
\* the well-formed lines
C5_CorruptionTolerance ==
  \A p \in Procs :
    (pc[p] = "idle" /\ result[p] # "none")
      => (result[p] = "ok" /\ lastDone = ParseFile(WithoutDamage(file)))

\* a step in which an exception of p's append attempt reaches the except clause
AttemptFails(p) ==
  /\ pc'[p] # pc[p]
  /\ \/ pc[p] \in {"open", "close"} /\ faults' # faults
     \/ pc[p] = "unlock" /\ exc[p] # "none"

C7_ReadYourWrites ==
  lock = 0 =>
    \A c \in 1..Len(calls) :
      calls[c].st = "ok" => Whole(NewId(c)) \in Range(ParseFile(file))

\* C8: no two lines of the log carry the same id
C8_UniqueIds ==
  LET recs == GetAllRecords
  IN \A i, j \in 1..Len(recs) : i < j => recs[i].id # recs[j].id

\* C9: a process that is idle or sleeping in the retry backoff does not hold
\* the lock
C9_LockReleased == \A p \in Procs : pc[p] \in {"idle", "sleep"} => lock # p

\* a process sleeps in the backoff after an exception that was raised while
\* it held the lock
C9_Witness ==
  \E p \in Procs : pc[p] = "sleep" /\ exc[p] = "body" /\ lock # p

C15_TitleNonEmpty ==
  \A c \in 1..Len(calls) :
    (lock = 0 /\ calls[c].st = "ok") =>
      LET found == get_by_id(GetAllRecords, NewId(c))
      IN Len(found) = 1 /\ found[1].title # <<>>

\* the title C18 describes: the candidate is the first 50 characters of the
\* trimmed content; the trimmed content up to and including the first
\* delimiter found in the candidate at a position above 10, else the candidate;
\* an ellipsis when the content is longer than that
ClaimedTitle(content) ==
  LET trimmed == Strip(content)
      title == TitleAtDelimiter(trimmed, Slice(trimmed, 0, 50), 1)
  IN IF Len(content) > Len(title) THEN title \o Ellipsis ELSE title

\* C18: the title generated for a store call without a title is the title
\* described above, for every content, leading whitespace included
C18_GeneratedTitle ==
  \A c \in 1..Len(calls) :
    (calls[c].st = "ok" /\ Strip(calls[c].inp.title) = <<>>) =>
      calls[c].summary.title = ClaimedTitle(calls[c].inp.content)

\* C20: the summary a successful store call returned has the id, the title
\* and the tags of the record get_by_id returns for that id
C20_SummaryIsRecord ==
  \A c \in 1..Len(calls) :
    (lock = 0 /\ calls[c].st = "ok") =>
      LET found == get_by_id(GetAllRecords, NewId(c))
      IN /\ Len(found) = 1
         /\ calls[c].summary.id = found[1].id
         /\ calls[c].summary.title = found[1].title
         /\ calls[c].summary.tags = found[1].tags

\* C19: a store call that failed after its third attempt left no piece of
\* its line in the file, and get_all_records returns the list it returned
\* before the call, made of the whole lines of the calls that succeeded
C19_FailedStoreLeavesNothing ==
  (lock = 0 /\ \A c \in 1..Len(calls) : calls[c].st # "run") =>
    /\ \A c \in 1..Len(calls) :
          calls[c].st = "error" => \A i \in 1..Len(file) : file[i].r # NewId(c)
    /\ \A i \in 1..Len(ParseFile(file)) :
          /\ ParseFile(file)[i].kind = "record"
          /\ calls[ParseFile(file)[i].h].st = "ok"

Min(a, b) == IF a < b THEN a ELSE b

\* some tag of the list tags is, case-insensitively, one of the tags wanted
SharesTag(tags, wanted) ==
  \E t \in Range(tags), w \in Range(wanted) : Lower(t) = Lower(w)

\* the positions in the list recs of the records that share a tag with wanted
Matching(recs, wanted) == {i \in 1..Len(recs) : SharesTag(recs[i].tags, wanted)}

FilterTags(tag_filter) ==
  [i \in 1..Len(SplitComma(tag_filter)) |-> Strip(SplitComma(tag_filter)[i])]

\* C12: with a non-empty tag_filter every result of search has a tag equal,
\* case-insensitively, to one of the filter tags and is a record of the log
\* with such a tag, and total counts no other record
C12_TagFilter ==
  (out.op = "search" /\ out.args.tag_filter # <<>>) =>
    LET recs == GetAllRecords
        wanted == FilterTags(out.args.tag_filter)
        matching == Matching(recs, wanted)
        results == out.value.results
    IN /\ \A k \in 1..Len(results) :
            /\ SharesTag(results[k].tags, wanted)
            /\ \E i \in matching : recs[i].id = results[k].id
       /\ out.value.total <= Cardinality(matching)

\* a search with a tag filter has returned a record of a log that also holds
\* a record without any of the filter tags
C12_Witness ==
  /\ out.op = "search"
  /\ out.args.tag_filter # <<>>
  /\ Len(out.value.results) >= 1
  /\ Cardinality(Matching(GetAllRecords, FilterTags(out.args.tag_filter)))
       < Len(GetAllRecords)

\* the positions in the list recs of the results of a search
PosOf(recs, results) ==
  [k \in 1..Len(results) |-> CHOOSE i \in 1..Len(recs) : recs[i].id = results[k].id]

\* C13: total is the number of records kept by the filter with a positive
\* score, results holds min(limit, total) of them with their scores, by
\* score descending and, for equal scores, in store order, and every scored
\* record left out is ranked behind all results
C13_Ranking ==
  out.op = "search" =>
    LET recs == GetAllRecords
        results == out.value.results
        pos == PosOf(recs, results)
        score == [i \in 1..Len(recs) |-> calculate_score(recs[i], Lower(out.args.query))]
        kept == IF out.args.tag_filter = <<>> THEN 1..Len(recs)
                ELSE Matching(recs, FilterTags(out.args.tag_filter))
        scored == {i \in kept : score[i].n > 0}
        shown == {pos[k] : k \in 1..Len(results)}
        ahead(i, j) ==
          \/ score[i].n * score[j].d > score[j].n * score[i].d
          \/ score[i].n * score[j].d = score[j].n * score[i].d /\ i < j
    IN /\ out.value.total = Cardinality(scored)
       /\ Len(results) = Min(out.args.limit, out.value.total)
       /\ \A k \in 1..Len(results) :
            pos[k] \in scored /\ results[k].score = score[pos[k]]
       /\ \A k, l \in 1..Len(results) : k < l => ahead(pos[k], pos[l])
       /\ \A i \in scored \ shown : \A k \in 1..Len(results) : ahead(pos[k], i)

\* search has returned two results with the same score
C13_Witness ==
  /\ out.op = "search"
  /\ Len(out.value.results) >= 2
  /\ out.value.results[1].score = out.value.results[2].score

\* the log holds two records, one with each of the two contents
LogHolds(content1, content2) ==
  /\ Len(GetAllRecords) = 2
  /\ {GetAllRecords[1].content, GetAllRecords[2].content} = {content1, content2}

\* C14: on the log of the two records "Python API tutorial" and "Cooking
\* pasta recipe", search("API") returns the first with a score of at least 175
\* and does not return the second
C14_UnrelatedExcluded ==
  (/\ out.op = "search"
   /\ out.args.query = <<"A", "P", "I">>
   /\ out.args.tag_filter = <<>>
   /\ out.args.limit >= 2
   /\ LogHolds(InputApi.content, InputPasta.content)) =>
    LET results == out.value.results
    IN /\ \E k \in 1..Len(results) :
            /\ results[k].title = InputApi.content
            /\ results[k].score.n >= 175 * results[k].score.d
       /\ \A k \in 1..Len(results) : results[k].title # InputPasta.content

\* the snippet C17 describes: a window of max_length characters of the
\* content that starts max_length / 3 characters before the match (position 0
\* without a match), clamped to 0, with an ellipsis before it when it does not
\* start at 0 and one after it when it does not reach the end, trimmed
ClaimedSnippet(content, query) ==
  LET found == BestPos(content, query)
      pos == IF found = -1 THEN 0 ELSE found
      start == IF pos - max_length \div 3 > 0 THEN pos - max_length \div 3 ELSE 0
  IN Strip((IF start > 0 THEN Ellipsis ELSE <<>>)
             \o Slice(content, start, start + max_length)
             \o (IF start + max_length < Len(content) THEN Ellipsis ELSE <<>>))

\* C17: the snippet of every search result is the snippet described above,
\* whether the content holds the query, a query word, or neither
C17_Snippet ==
  out.op = "search" =>
    LET recs == GetAllRecords
        results == out.value.results
        pos == PosOf(recs, results)
    IN \A k \in 1..Len(results) :
         results[k].snippet = ClaimedSnippet(recs[pos[k]].content, Lower(out.args.query))

====
